---- MODULE Spec2Model ----
(***************************************************************************)
(* Model of the multi-source / multi-sink Dijkstra engine of               *)
(* src/src/dijkstra.rs (Dijkstra::new, Dijkstra::find_shorted_path) over   *)
(* the weight algebra and vertex/edge types of src/tests/dijkstra_test.rs. *)
(***************************************************************************)
EXTENDS Naturals, Sequences, FiniteSets, Bags, TLC

VARIABLES
    edges,      \* the caller's vertices: vertex name -> sequence of outgoing edges
    list,       \* the iterable handed to Dijkstra::new
    dijkstra,   \* the engine: [graph, v_to_index_map]
    call,       \* per call of find_shorted_path in progress: its arguments
    trav        \* per call of find_shorted_path in progress: its locals

vars == <<edges, list, dijkstra, call, trav>>

\* ------------------------------------------------------------------ bounds
MaxWeight == 1
MaxArgs == 2
MaxLen == 4
MaxRoute == 4

\* The caller's vertices, by name. "U" is never handed to Dijkstra::new in Spec.
Known == {"A", "B", "C"}
World == Known \cup {"U"}

\* The start and end arguments of a call.
Args == {s \in SUBSET World : Cardinality(s) <= MaxArgs}

\* ----------------------------------------------------------- weight algebra
\* SimpleWeight { weight: usize, is_infinity: bool }
W(n) == [weight |-> n, is_infinity |-> FALSE]

zero == [weight |-> 0, is_infinity |-> FALSE]

infinity == [weight |-> 0, is_infinity |-> TRUE]

add(a, b) ==
    [weight |-> a.weight + b.weight, is_infinity |-> a.is_infinity \/ b.is_infinity]

\* PartialEq for SimpleWeight
WEq(a, b) ==
    \/ a.is_infinity /\ b.is_infinity
    \/ a.is_infinity = b.is_infinity /\ a.weight = b.weight

\* Ord::cmp for SimpleWeight, as "Less" | "Equal" | "Greater"
cmp(a, b) ==
    CASE a.is_infinity /\ b.is_infinity -> "Equal"
      [] a.is_infinity /\ ~b.is_infinity -> "Greater"
      [] ~a.is_infinity /\ b.is_infinity -> "Less"
      [] OTHER -> IF a.weight < b.weight THEN "Less"
                  ELSE IF a.weight = b.weight THEN "Equal" ELSE "Greater"

WGreater(a, b) == cmp(a, b) = "Greater"

\* Ord for UnvisitedVertex: reversed comparison of the weights, so that the
\* max-heap BinaryHeap pops an entry of least weight.
UnvisitedCmp(x, y) == cmp(y.weight, x.weight)

Weights == {W(n) : n \in 0..MaxWeight} \cup {infinity}

\* ------------------------------------------------------------------ engine
Range(s) == {s[i] : i \in DOMAIN s}

\* Mutant of Collect: an insertion that keeps the entry a key already has.
RECURSIVE CollectFirst(_, _)
CollectFirst(l, n) ==
    IF n = 0 THEN <<>>
    ELSE LET m == CollectFirst(l, n - 1)
         IN [v \in (DOMAIN m) \cup {l[n]} |-> IF v \in DOMAIN m THEN m[v] ELSE n - 1]

\* HashMap::from_iter over the first n (vertex, index) pairs of the list: a later
\* pair with an equal key overwrites the earlier one.
RECURSIVE Collect(_, _)
Collect(l, n) ==
    IF n = 0 THEN <<>>
    ELSE LET m == Collect(l, n - 1)
         IN [v \in (DOMAIN m) \cup {l[n]} |-> IF v = l[n] THEN n - 1 ELSE m[v]]

\* Dijkstra::new
New(l) ==
    [graph |-> [i \in 0..(Len(l) - 1) |-> l[i + 1]],
     v_to_index_map |-> Collect(l, Len(l))]

Indices == DOMAIN dijkstra.graph

\* Mutant of IndexSet: a lookup that falls back on index 0 (unwrap_or_default)
\* instead of dropping the vertex.
IndexSetOrZero(vs) ==
    {IF v \in DOMAIN dijkstra.v_to_index_map THEN dijkstra.v_to_index_map[v] ELSE 0 :
        v \in vs}

\* starts.into_iter().filter_map(|v| map.get(v)).map(|&i| i) collected in a HashSet
IndexSet(vs) ==
    {dijkstra.v_to_index_map[v] : v \in vs \cap DOMAIN dijkstra.v_to_index_map}

\* --------------------------------------------------------- traversal state
NoCall == [starts |-> {}, ends |-> {}]

Idle ==
    [pc |-> "idle", start_set |-> {}, end_set |-> {}, weights |-> <<>>,
     unvisiteds |-> EmptyBag, backtracker |-> <<>>, visiteds |-> <<>>,
     now |-> 0, weight_sum |-> zero, edge |-> 0, route |-> <<>>]

\* The three places a call panics: the unwrap of line 124, of line 133, of line 157.
Panics == {"panic_124", "panic_133", "panic_157"}

UnvisitedVertex(i, w) == [index |-> i, weight |-> w]

Push(heap, e) == heap (+) SetToBag({e})

\* Mutant of Poppable: a heap that pops entries in no order.
PoppableAny(heap) == BagToSet(heap)

\* Mutant of Poppable: the comparison of line 60 not reversed, so that the
\* max-heap pops an entry of greatest weight.
PoppableGreatest(heap) ==
    {e \in BagToSet(heap) :
        \A f \in BagToSet(heap) : UnvisitedCmp(f, e) # "Less"}

\* The entries BinaryHeap::pop may return: those no other entry is greater than.
\* Which of several equal entries comes out depends on the insertion order and,
\* for the start vertices, on the HashSet's iteration order.
Poppable(heap) ==
    {e \in BagToSet(heap) :
        \A f \in BagToSet(heap) : UnvisitedCmp(f, e) # "Greater"}

\* Mutant of Begin: the visited flags live in a buffer the calls share, so a call
\* starts with the flags of a call in progress.
BeginShared(starts, ends) ==
    LET ss == IndexSet(starts)
        es == IndexSet(ends)
        others == {p \in DOMAIN trav : trav[p].pc # "idle"}
    IN [pc |-> "pop_start", start_set |-> ss, end_set |-> es,
        weights |-> [i \in Indices |-> IF i \in ss THEN zero ELSE infinity],
        unvisiteds |-> [e \in {UnvisitedVertex(i, zero) : i \in ss} |-> 1],
        backtracker |-> [i \in Indices |-> 0],
        visiteds |-> IF others = {} THEN [i \in Indices |-> FALSE]
                     ELSE trav[CHOOSE p \in others : TRUE].visiteds,
        now |-> 0, weight_sum |-> zero, edge |-> 0, route |-> <<>>]

\* Mutant of Begin: line 114 left out, the starts keep the weight infinity.
BeginNoZero(starts, ends) ==
    LET ss == IndexSet(starts)
        es == IndexSet(ends)
    IN [pc |-> "pop_start", start_set |-> ss, end_set |-> es,
        weights |-> [i \in Indices |-> infinity],
        unvisiteds |-> [e \in {UnvisitedVertex(i, infinity) : i \in ss} |-> 1],
        backtracker |-> [i \in Indices |-> 0],
        visiteds |-> [i \in Indices |-> FALSE],
        now |-> 0, weight_sum |-> zero, edge |-> 0, route |-> <<>>]

\* lines 96-122: the locals before the first pop
Begin(starts, ends) ==
    LET ss == IndexSet(starts)
        es == IndexSet(ends)
    IN [pc |-> "pop_start", start_set |-> ss, end_set |-> es,
        weights |-> [i \in Indices |-> IF i \in ss THEN zero ELSE infinity],
        unvisiteds |-> [e \in {UnvisitedVertex(i, zero) : i \in ss} |-> 1],
        backtracker |-> [i \in Indices |-> 0],
        visiteds |-> [i \in Indices |-> FALSE],
        now |-> 0, weight_sum |-> zero, edge |-> 0, route |-> <<>>]

\* line 128: the loop test on the new current vertex
Enter(t) ==
    IF t.now \in t.end_set
    THEN [t EXCEPT !.pc = "reconstruct"]
    ELSE [t EXCEPT !.pc = "edges", !.edge = 1]

\* lines 124-127
PopStart(t, e) ==
    Enter([t EXCEPT !.unvisiteds = t.unvisiteds (-) SetToBag({e}),
                    !.now = e.index, !.weight_sum = e.weight])

\* Mutant of Relax: the candidate weight is the edge's weight alone, the weight
\* of the current vertex left out of line 141.
RelaxNoAdd(t, edge) ==
    IF edge.to \notin DOMAIN dijkstra.v_to_index_map
    THEN [t EXCEPT !.pc = "panic_133"]
    ELSE LET to == dijkstra.v_to_index_map[edge.to]
             added_weight == edge.weight
             better == WGreater(t.weights[to], added_weight)
             w == IF better THEN added_weight ELSE t.weights[to]
         IN IF t.visiteds[to]
            THEN [t EXCEPT !.edge = t.edge + 1]
            ELSE [t EXCEPT !.weights[to] = w,
                           !.backtracker[to] = IF better THEN t.now ELSE @,
                           !.unvisiteds = Push(@, UnvisitedVertex(to, w)),
                           !.edge = t.edge + 1]

\* Mutant of Relax: line 145 records the destination itself as its backpointer.
RelaxPointAtSelf(t, edge) ==
    IF edge.to \notin DOMAIN dijkstra.v_to_index_map
    THEN [t EXCEPT !.pc = "panic_133"]
    ELSE LET to == dijkstra.v_to_index_map[edge.to]
             added_weight == add(t.weight_sum, edge.weight)
             better == WGreater(t.weights[to], added_weight)
             w == IF better THEN added_weight ELSE t.weights[to]
         IN IF t.visiteds[to]
            THEN [t EXCEPT !.edge = t.edge + 1]
            ELSE [t EXCEPT !.weights[to] = w,
                           !.backtracker[to] = IF better THEN to ELSE @,
                           !.unvisiteds = Push(@, UnvisitedVertex(to, w)),
                           !.edge = t.edge + 1]

\* Mutant of Relax: line 143 written with >=, an equal candidate also rewrites
\* the tentative weight and the backpointer.
RelaxOrEqual(t, edge) ==
    IF edge.to \notin DOMAIN dijkstra.v_to_index_map
    THEN [t EXCEPT !.pc = "panic_133"]
    ELSE LET to == dijkstra.v_to_index_map[edge.to]
             added_weight == add(t.weight_sum, edge.weight)
             better == cmp(t.weights[to], added_weight) # "Less"
             w == IF better THEN added_weight ELSE t.weights[to]
         IN IF t.visiteds[to]
            THEN [t EXCEPT !.edge = t.edge + 1]
            ELSE [t EXCEPT !.weights[to] = w,
                           !.backtracker[to] = IF better THEN t.now ELSE @,
                           !.unvisiteds = Push(@, UnvisitedVertex(to, w)),
                           !.edge = t.edge + 1]

\* Mutant of Relax: an edge to a vertex the engine does not know is skipped
\* (if let Some(to) = ... else continue) instead of unwrapped.
RelaxSkipUnknown(t, edge) ==
    IF edge.to \notin DOMAIN dijkstra.v_to_index_map
    THEN [t EXCEPT !.edge = t.edge + 1]
    ELSE LET to == dijkstra.v_to_index_map[edge.to]
             added_weight == add(t.weight_sum, edge.weight)
             better == WGreater(t.weights[to], added_weight)
             w == IF better THEN added_weight ELSE t.weights[to]
         IN IF t.visiteds[to]
            THEN [t EXCEPT !.edge = t.edge + 1]
            ELSE [t EXCEPT !.weights[to] = w,
                           !.backtracker[to] = IF better THEN t.now ELSE @,
                           !.unvisiteds = Push(@, UnvisitedVertex(to, w)),
                           !.edge = t.edge + 1]

\* lines 131-152, one edge of the current vertex
Relax(t, edge) ==
    IF edge.to \notin DOMAIN dijkstra.v_to_index_map
    THEN [t EXCEPT !.pc = "panic_133"]
    ELSE LET to == dijkstra.v_to_index_map[edge.to]
             added_weight == add(t.weight_sum, edge.weight)
             better == WGreater(t.weights[to], added_weight)
             w == IF better THEN added_weight ELSE t.weights[to]
         IN IF t.visiteds[to]
            THEN [t EXCEPT !.edge = t.edge + 1]
            ELSE [t EXCEPT !.weights[to] = w,
                           !.backtracker[to] = IF better THEN t.now ELSE @,
                           !.unvisiteds = Push(@, UnvisitedVertex(to, w)),
                           !.edge = t.edge + 1]

\* line 153
MarkVisited(t) == [t EXCEPT !.visiteds[t.now] = TRUE, !.pc = "pop"]

\* Mutant of Pop: the test of line 156 left out, every popped entry becomes the
\* current vertex.
PopNoCheck(t, e) ==
    Enter([t EXCEPT !.unvisiteds = t.unvisiteds (-) SetToBag({e}),
                    !.weight_sum = e.weight, !.now = e.index])

\* Mutant of Pop: line 159 left out, the popped entry's weight is not kept.
PopKeepWeight(t, e) ==
    LET u == [t EXCEPT !.unvisiteds = t.unvisiteds (-) SetToBag({e})]
    IN IF t.visiteds[e.index] THEN u ELSE Enter([u EXCEPT !.now = e.index])

\* lines 156-161, one iteration of the inner loop
Pop(t, e) ==
    LET u == [t EXCEPT !.unvisiteds = t.unvisiteds (-) SetToBag({e}),
                       !.weight_sum = e.weight]
    IN IF t.visiteds[e.index] THEN u ELSE Enter([u EXCEPT !.now = e.index])

\* Mutant of Backtrack: the loop of line 166 written as an `if`, so that one
\* backpointer is followed at most.
BacktrackOnce(t) ==
    LET r == <<dijkstra.graph[t.now]>> \o t.route
    IN IF t.now \in t.start_set
       THEN [t EXCEPT !.route = r, !.pc = "done"]
       ELSE [t EXCEPT !.route = <<dijkstra.graph[t.backtracker[t.now]]>> \o r,
                      !.now = t.backtracker[t.now], !.pc = "done"]

\* lines 166-170, one iteration
Backtrack(t) ==
    LET r == <<dijkstra.graph[t.now]>> \o t.route
    IN IF t.now \in t.start_set
       THEN [t EXCEPT !.route = r, !.pc = "done"]
       ELSE [t EXCEPT !.route = r, !.now = t.backtracker[t.now]]

\* ----------------------------------------------------------------- actions
\* A call of find_shorted_path with arguments from `menu`, up to line 122.
CallFrom(q, menu) ==
    /\ trav[q].pc = "idle"
    /\ \E a \in menu :
          /\ call' = [call EXCEPT ![q] = [starts |-> a[1], ends |-> a[2]]]
          /\ trav' = [trav EXCEPT ![q] = Begin(a[1], a[2])]
    /\ UNCHANGED <<edges, list, dijkstra>>

Call(q) == CallFrom(q, Args \X Args)

\* Mutant of FirstPop: the first pop falls back on index 0 with weight zero
\* (unwrap_or) when the frontier is empty.
FirstPopOrZero(q) ==
    /\ trav[q].pc = "pop_start"
    /\ IF trav[q].unvisiteds = EmptyBag
       THEN trav' = [trav EXCEPT ![q] = Enter([trav[q] EXCEPT !.now = 0])]
       ELSE \E e \in Poppable(trav[q].unvisiteds) :
               trav' = [trav EXCEPT ![q] = PopStart(trav[q], e)]
    /\ UNCHANGED <<edges, list, dijkstra, call>>

FirstPop(q) ==
    /\ trav[q].pc = "pop_start"
    /\ IF trav[q].unvisiteds = EmptyBag
       THEN trav' = [trav EXCEPT ![q].pc = "panic_124"]
       ELSE \E e \in Poppable(trav[q].unvisiteds) :
               trav' = [trav EXCEPT ![q] = PopStart(trav[q], e)]
    /\ UNCHANGED <<edges, list, dijkstra, call>>

OutEdges(t) == edges[dijkstra.graph[t.now]]

RelaxEdge(q) ==
    /\ trav[q].pc = "edges"
    /\ trav[q].edge <= Len(OutEdges(trav[q]))
    /\ trav' = [trav EXCEPT ![q] = Relax(trav[q], OutEdges(trav[q])[trav[q].edge])]
    /\ UNCHANGED <<edges, list, dijkstra, call>>

Visit(q) ==
    /\ trav[q].pc = "edges"
    /\ trav[q].edge > Len(OutEdges(trav[q]))
    /\ trav' = [trav EXCEPT ![q] = MarkVisited(trav[q])]
    /\ UNCHANGED <<edges, list, dijkstra, call>>

NextPop(q) ==
    /\ trav[q].pc = "pop"
    /\ IF trav[q].unvisiteds = EmptyBag
       THEN trav' = [trav EXCEPT ![q].pc = "panic_157"]
       ELSE \E e \in Poppable(trav[q].unvisiteds) :
               trav' = [trav EXCEPT ![q] = Pop(trav[q], e)]
    /\ UNCHANGED <<edges, list, dijkstra, call>>

\* The loop of line 166 does not end when the backpointers lead to an index that
\* is its own backpointer and no start; the route is then cut at MaxRoute.
Reconstruct(q) ==
    /\ trav[q].pc = "reconstruct"
    /\ Len(trav[q].route) < MaxRoute
    /\ trav' = [trav EXCEPT ![q] = Backtrack(trav[q])]
    /\ UNCHANGED <<edges, list, dijkstra, call>>

\* line 172: the result is handed over and the locals are dropped
Return(q) ==
    /\ trav[q].pc = "done"
    /\ trav' = [trav EXCEPT ![q] = Idle]
    /\ call' = [call EXCEPT ![q] = NoCall]
    /\ UNCHANGED <<edges, list, dijkstra>>

\* Dijkstra::new on another iterable, while no call borrows the engine
Construct ==
    /\ \A q \in DOMAIN trav : trav[q].pc = "idle"
    /\ \E l \in UNION {[1..n -> World] : n \in 0..MaxLen} :
          /\ list' = l
          /\ dijkstra' = New(l)
    /\ UNCHANGED <<edges, call, trav>>

\* ------------------------------------------------------------------ inputs
\* The places an edge may be, as <<from, to>>, in the order of each vertex's Vec.
Pairs == <<
    <<"A", "B">>, <<"A", "C">>, <<"B", "C">>, <<"B", "A">>, <<"B", "U">> >>

\* What a place may hold: no edge, or one edge of some weight. The weight of an
\* edge to a vertex the engine does not know is never read (line 133 comes before
\* line 139), so one weight stands for all of them.
Choices(p) ==
    {<<>>} \cup {<<w>> : w \in IF p[2] \in Known THEN Weights ELSE {zero}}

RECURSIVE EdgesOf(_, _, _)
EdgesOf(v, g, n) ==
    IF n = 0 THEN <<>>
    ELSE EdgesOf(v, g, n - 1) \o
         (IF Pairs[n][1] = v
          THEN [i \in DOMAIN g[n] |-> [to |-> Pairs[n][2], weight |-> g[n][i]]]
          ELSE <<>>)

Graphs == {g \in [DOMAIN Pairs -> UNION {Choices(Pairs[n]) : n \in DOMAIN Pairs}] :
              \A n \in DOMAIN Pairs : g[n] \in Choices(Pairs[n])}

\* The graphs of two calls in progress at once: those over the edges of the
\* repository's test, A->B, A->C and B->C.
TestGraphs == {g \in Graphs : g[4] = <<>> /\ g[5] = <<>>}

\* The arguments of two calls in progress at once.
Menu == {{"A"}, {"A", "B"}} \X {{"C"}, {"B", "C"}}

Init ==
    /\ \E g \in Graphs : edges = [v \in World |-> EdgesOf(v, g, Len(Pairs))]
    /\ list = <<"A", "B", "C">>
    /\ dijkstra = New(list)
    /\ call = <<NoCall>>
    /\ trav = <<Idle>>

Next ==
    \/ \E q \in DOMAIN trav : Call(q)
    \/ \E q \in DOMAIN trav : FirstPop(q)
    \/ \E q \in DOMAIN trav : RelaxEdge(q)
    \/ \E q \in DOMAIN trav : Visit(q)
    \/ \E q \in DOMAIN trav : NextPop(q)
    \/ \E q \in DOMAIN trav : Reconstruct(q)
    \/ \E q \in DOMAIN trav : Return(q)

\* One call at a time on an engine over the vertices A, B, C.
Spec == Init /\ [][Next]_vars

InitConcurrent ==
    /\ \E g \in TestGraphs : edges = [v \in World |-> EdgesOf(v, g, Len(Pairs))]
    /\ list = <<"A", "B", "C">>
    /\ dijkstra = New(list)
    /\ call = <<NoCall, NoCall>>
    /\ trav = <<Idle, Idle>>

CallSome(q) == CallFrom(q, Menu)

NextConcurrent ==
    \/ \E q \in DOMAIN trav : CallSome(q)
    \/ \E q \in DOMAIN trav : FirstPop(q)
    \/ \E q \in DOMAIN trav : RelaxEdge(q)
    \/ \E q \in DOMAIN trav : Visit(q)
    \/ \E q \in DOMAIN trav : NextPop(q)
    \/ \E q \in DOMAIN trav : Reconstruct(q)
    \/ \E q \in DOMAIN trav : Return(q)

\* Two calls on the same engine, their steps interleaved in every order.
SpecConcurrent == InitConcurrent /\ [][NextConcurrent]_vars

InitNew ==
    /\ edges = [v \in World |-> <<>>]
    /\ list = <<>>
    /\ dijkstra = New(list)
    /\ call = <<NoCall>>
    /\ trav = <<Idle>>

\* Engines built from every iterable of at most MaxLen vertices.
SpecNew == InitNew /\ [][Construct]_vars

\* ------------------------------------------------------- paths of the graph
\* The vertices of the arguments that the engine knows.
KnownOf(vs) == vs \cap DOMAIN dijkstra.v_to_index_map

EdgeWeights(u, v) ==
    {edges[u][i].weight : i \in {j \in DOMAIN edges[u] : edges[u][j].to = v}}

Least(ws) == CHOOSE w \in ws : \A x \in ws : cmp(w, x) # "Greater"

IsPath(p) == \A i \in 1..(Len(p) - 1) : EdgeWeights(p[i], p[i + 1]) # {}

RECURSIVE PathWeight(_)
PathWeight(p) ==
    IF Len(p) <= 1 THEN zero
    ELSE add(PathWeight(SubSeq(p, 1, Len(p) - 1)),
             Least(EdgeWeights(p[Len(p) - 1], p[Len(p)])))

\* The edges into v, each as <<from, position in from's edges>>.
InEdges(v) ==
    UNION {{<<u, i>> : i \in {j \in DOMAIN edges[u] : edges[u][j].to = v}} :
              u \in World}

\* The weights of the walks of at most n edges from a vertex of `from` to v.
RECURSIVE WalkWeights(_, _, _)
WalkWeights(from, v, n) ==
    (IF v \in from THEN {zero} ELSE {}) \cup
    (IF n = 0 THEN {}
     ELSE UNION {{add(w, edges[e[1]][e[2]].weight) :
                     w \in WalkWeights(from, e[1], n - 1)} : e \in InEdges(v)})

\* The weights of the paths from a vertex of `from` to a vertex of `to`. With
\* weights that are never negative a walk of least weight need not repeat a
\* vertex, so walks of fewer edges than there are vertices are enough.
PathWeights(from, to) ==
    UNION {WalkWeights(from, v, Cardinality(World) - 1) : v \in to}

FiniteWeights ==
    \A v \in World : \A i \in DOMAIN edges[v] : ~edges[v][i].weight.is_infinity

Returned(q) == trav[q].pc = "done"

\* ------------------------------------------------------------------ claims
\* C1: on a graph whose edge weights are all finite, the weight a query returns
\* is the least weight of a path from a start vertex to an end vertex.
C1_MinimumWeight ==
    \A q \in DOMAIN trav :
        Returned(q) /\ FiniteWeights =>
            LET ws == PathWeights(KnownOf(call[q].starts), KnownOf(call[q].ends))
            IN ws # {} /\ WEq(trav[q].weight_sum, Least(ws))

\* C1 witness: a returned three-vertex path that beats the direct edge from its
\* first to its last vertex.
C1_Witness ==
    \E q \in DOMAIN trav :
        /\ Returned(q) /\ FiniteWeights
        /\ Len(trav[q].route) = 3
        /\ \E w \in EdgeWeights(trav[q].route[1], trav[q].route[3]) :
              cmp(trav[q].weight_sum, w) = "Less"

\* C2: the returned path follows edges of the graph and the returned weight is
\* the sum of the weights of those edges.
C2_PathWeight ==
    \A q \in DOMAIN trav :
        Returned(q) =>
            /\ IsPath(trav[q].route)
            /\ WEq(trav[q].weight_sum, PathWeight(trav[q].route))

\* C3: the returned path starts in the start set and ends in the end set.
C3_Endpoints ==
    \A q \in DOMAIN trav :
        Returned(q) =>
            /\ trav[q].route # <<>>
            /\ trav[q].route[1] \in call[q].starts
            /\ trav[q].route[Len(trav[q].route)] \in call[q].ends

\* C3 witness: a returned path of several vertices, from a call that had a
\* choice of starts and of ends.
C3_Witness ==
    \E q \in DOMAIN trav :
        /\ Returned(q)
        /\ Len(trav[q].route) >= 2
        /\ Cardinality(call[q].starts) = 2
        /\ Cardinality(call[q].ends) = 2

\* Some vertex the engine knows is in both arguments of the call.
Common(q) == KnownOf(call[q].starts \cap call[q].ends) # {}

ZeroEdge(u, v) == \E w \in EdgeWeights(u, v) : WEq(w, zero)

\* C4 as stated: with a vertex in both the start and the end set, the returned
\* path is one vertex and the returned weight is zero.
C4_SingleVertex ==
    \A q \in DOMAIN trav :
        Returned(q) /\ Common(q) =>
            Len(trav[q].route) = 1 /\ WEq(trav[q].weight_sum, zero)

\* C4 as amended: with a vertex in both the start and the end set, a call that
\* returns returns the weight zero and a path whose consecutive vertices are
\* joined by edges of weight zero, so a path of one vertex when the graph has no
\* edge of weight zero.
C4_ZeroWeight ==
    \A q \in DOMAIN trav :
        Returned(q) /\ Common(q) =>
            /\ WEq(trav[q].weight_sum, zero)
            /\ \A i \in 1..(Len(trav[q].route) - 1) :
                  ZeroEdge(trav[q].route[i], trav[q].route[i + 1])
            /\ (\A u, v \in World : ~ZeroEdge(u, v)) => Len(trav[q].route) = 1

\* C4 witness: a call with a vertex in both sets that returned a longer path.
C4_Witness ==
    \E q \in DOMAIN trav : Returned(q) /\ Common(q) /\ Len(trav[q].route) >= 2

Reachable(q) == PathWeights(KnownOf(call[q].starts), KnownOf(call[q].ends)) # {}

\* C5: a call with a known start from whose starts no end can be reached does
\* not crash on the exhausted frontier.
C5_NoPathFound ==
    \A q \in DOMAIN trav :
        KnownOf(call[q].starts) # {} /\ ~Reachable(q) => trav[q].pc # "panic_157"

\* C6: a call none of whose starts the engine knows aborts at the first pop and
\* returns nothing.
C6_AbortAtFirstPop ==
    \A q \in DOMAIN trav :
        trav[q].pc # "idle" /\ KnownOf(call[q].starts) = {} =>
            /\ trav[q].pc \in {"pop_start", "panic_124"}
            /\ trav[q].route = <<>>

\* C6 witness: a call with starts, all unknown, and a known end has aborted.
C6_Witness ==
    \E q \in DOMAIN trav :
        /\ trav[q].pc = "panic_124"
        /\ call[q].starts # {}
        /\ KnownOf(call[q].ends) # {}

\* C7: the unknown vertices of the arguments are dropped: the index sets hold
\* the indices of the known vertices of the arguments, the locals before the
\* first pop are those of the call without the unknown vertices, the first pop
\* aborts only when no start is known, and a returned weight is the least path
\* weight between the known vertices of the arguments.
C7_UnknownDropped ==
    \A q \in DOMAIN trav :
        trav[q].pc # "idle" =>
            LET g == dijkstra.graph
                m == dijkstra.v_to_index_map
                ws == PathWeights(KnownOf(call[q].starts), KnownOf(call[q].ends))
            IN /\ trav[q].start_set =
                     {i \in Indices : g[i] \in call[q].starts /\ m[g[i]] = i}
               /\ trav[q].end_set =
                     {i \in Indices : g[i] \in call[q].ends /\ m[g[i]] = i}
               /\ trav[q].pc = "pop_start" =>
                     trav[q] = Begin(KnownOf(call[q].starts), KnownOf(call[q].ends))
               /\ trav[q].pc = "panic_124" => KnownOf(call[q].starts) = {}
               /\ Returned(q) => ws # {} /\ WEq(trav[q].weight_sum, Least(ws))

\* C7 witness: a call with an unknown vertex among its starts and among its
\* ends has returned.
C7_Witness ==
    \E q \in DOMAIN trav :
        /\ Returned(q)
        /\ call[q].starts \ KnownOf(call[q].starts) # {}
        /\ call[q].ends \ KnownOf(call[q].ends) # {}

\* The locals of a call as lines 96-122 leave them.
Fresh(t) ==
    /\ \A i \in Indices :
          /\ ~t.visiteds[i]
          /\ t.backtracker[i] = 0
          /\ t.weights[i] = IF i \in t.start_set THEN zero ELSE infinity
    /\ t.unvisiteds = SetToBag({UnvisitedVertex(i, zero) : i \in t.start_set})

\* C8: no step of a call changes the engine; a call starts from fresh locals; a
\* step of one call leaves the locals of the other alone; and whatever the
\* interleaving, a returned weight is the least path weight between the call's
\* arguments, the weight the call returns when it runs alone.
C8_Independent ==
    /\ [][/\ dijkstra' = dijkstra
          /\ \A q \in DOMAIN trav :
                /\ trav[q].pc = "idle" /\ trav'[q].pc # "idle" => Fresh(trav'[q])
                /\ trav'[q] # trav[q] =>
                      \A p \in DOMAIN trav \ {q} : trav'[p] = trav[p]]_vars
    /\ [](\A q \in DOMAIN trav :
             Returned(q) =>
                LET ws == PathWeights(KnownOf(call[q].starts), KnownOf(call[q].ends))
                IN ws # {} /\ WEq(trav[q].weight_sum, Least(ws)))

\* C8 witness: one call has returned a three-vertex path while the other, with
\* the same arguments, is in the middle of its traversal.
C8_Witness ==
    \E q, p \in DOMAIN trav :
        /\ q # p
        /\ Returned(q) /\ Len(trav[q].route) = 3
        /\ call[p] = call[q]
        /\ trav[p].pc \in {"edges", "pop"}
        /\ \E i \in Indices : trav[p].visiteds[i]

\* C9: the engine's vertex list is the iterable in order, from index 0, and the
\* index map sends each vertex of it to the last position it has there.
C9_IndexMap ==
    LET g == dijkstra.graph
        m == dijkstra.v_to_index_map
    IN /\ DOMAIN g = 0..(Len(list) - 1)
       /\ \A i \in DOMAIN g : g[i] = list[i + 1]
       /\ DOMAIN m = Range(list)
       /\ \A v \in DOMAIN m :
             /\ m[v] \in DOMAIN g
             /\ m[v] < Len(list)
             /\ g[m[v]] = v
             /\ \A i \in DOMAIN g : g[i] = v => i <= m[v]

\* C9 witness: an engine built from an iterable that has a vertex twice.
C9_Witness ==
    /\ DOMAIN dijkstra.graph # {}
    /\ \E i, j \in DOMAIN list : i < j /\ list[i] = list[j]

\* C10: an edge to an unvisited destination puts an entry on the frontier only
\* when its candidate weight is less than the destination's tentative weight;
\* otherwise it changes no tentative weight, no backpointer and not the frontier.
C10_PushOnlyIfLess ==
    [][\A q \in DOMAIN trav :
          trav[q].pc = "edges" /\ trav'[q].pc = "edges"
                               /\ trav'[q].edge = trav[q].edge + 1 =>
            LET t == trav[q]
                e == OutEdges(t)[t.edge]
                to == dijkstra.v_to_index_map[e.to]
                candidate == add(t.weight_sum, e.weight)
            IN ~t.visiteds[to] =>
                  IF cmp(candidate, t.weights[to]) = "Less"
                  THEN /\ trav'[q].weights[to] = candidate
                       /\ trav'[q].backtracker[to] = t.now
                       /\ trav'[q].unvisiteds =
                             Push(t.unvisiteds, UnvisitedVertex(to, candidate))
                  ELSE /\ trav'[q].weights = t.weights
                       /\ trav'[q].backtracker = t.backtracker
                       /\ trav'[q].unvisiteds = t.unvisiteds]_vars
\* The locals of the call exist: it has begun and has not handed over its result.
Running(q) == trav[q].pc # "idle"

\* C11: a vertex marked visited has the least weight of a path from the start set
\* to it as its tentative weight, and while the call runs it stays visited and
\* its tentative weight and backpointer do not change.
C11_VisitedFinal ==
    /\ [](\A q \in DOMAIN trav :
             Running(q) =>
                \A i \in Indices :
                   trav[q].visiteds[i] =>
                      LET ws == PathWeights(KnownOf(call[q].starts), {dijkstra.graph[i]})
                      IN ws # {} /\ WEq(trav[q].weights[i], Least(ws)))
    /\ [][\A q \in DOMAIN trav :
             Running(q) /\ trav'[q].pc # "idle" =>
                \A i \in Indices :
                   trav[q].visiteds[i] =>
                      /\ trav'[q].visiteds[i]
                      /\ trav'[q].weights[i] = trav[q].weights[i]
                      /\ trav'[q].backtracker[i] = trav[q].backtracker[i]]_vars

\* C11 witness: on a graph of finite weights every vertex is visited, the last of
\* them over another vertex that is no start.
C11_Witness ==
    \E q \in DOMAIN trav :
        /\ trav[q].pc = "pop"
        /\ FiniteWeights
        /\ \A i \in Indices : trav[q].visiteds[i]
        /\ trav[q].now \notin trav[q].start_set
        /\ trav[q].backtracker[trav[q].now] \notin trav[q].start_set
\* C12: in a step of a running call a backpointer changes only together with a
\* strict decrease of the same vertex's tentative weight, in the expansion of the
\* current vertex; a tentative weight that decreases strictly has its backpointer
\* set to the current vertex; and no tentative weight increases.
C12_BackpointerFrame ==
    [][\A q \in DOMAIN trav :
          Running(q) /\ trav'[q].pc # "idle" =>
             \A i \in Indices :
                LET less == cmp(trav'[q].weights[i], trav[q].weights[i]) = "Less"
                IN /\ trav'[q].backtracker[i] # trav[q].backtracker[i] =>
                         less /\ trav[q].pc = "edges"
                   /\ less => /\ trav[q].pc = "edges"
                              /\ trav'[q].backtracker[i] = trav[q].now
                              /\ trav'[q].now = trav[q].now
                   /\ ~less => trav'[q].weights[i] = trav[q].weights[i]]_vars

\* C12 witness: the edge just relaxed lowered a tentative weight that an earlier
\* relaxation had already made finite: the stale entry is still on the frontier.
C12_Witness ==
    \E q \in DOMAIN trav :
        /\ trav[q].pc = "edges"
        /\ trav[q].edge > 1
        /\ LET e == OutEdges(trav[q])[trav[q].edge - 1]
           IN /\ e.to \in DOMAIN dijkstra.v_to_index_map
              /\ LET to == dijkstra.v_to_index_map[e.to]
                 IN /\ trav[q].backtracker[to] = trav[q].now
                    /\ trav[q].now # 0
                    /\ trav[q].weights[to] = add(trav[q].weight_sum, e.weight)
                    /\ \E f \in BagToSet(trav[q].unvisiteds) :
                          /\ f.index = to
                          /\ ~f.weight.is_infinity
                          /\ cmp(trav[q].weights[to], f.weight) = "Less"
\* The call has a current vertex that it expands or stops at.
Current(t) == t.pc \in {"edges", "reconstruct"}

\* C13: a pop after the visited mark either takes an entry of a visited index off
\* the frontier and changes no tentative weight, backpointer or visited flag and
\* not the current vertex, or takes an entry of an unvisited index, which becomes
\* the current vertex; the vertex that becomes current has not been current
\* before (it is not visited, and every vertex that was current is), and the
\* visited mark falls on a vertex not yet marked, so the main loop runs at most
\* once per vertex.
C13_LazyDeletion ==
    [][\A q \in DOMAIN trav :
          LET t == trav[q]
              u == trav'[q]
          IN /\ t.pc = "pop" /\ u.pc \notin {"pop", "panic_157"} =>
                   /\ Current(u)
                   /\ ~t.visiteds[u.now]
                   /\ UnvisitedVertex(u.now, u.weight_sum) \in BagToSet(t.unvisiteds)
                   /\ u.unvisiteds (+) SetToBag({UnvisitedVertex(u.now, u.weight_sum)})
                         = t.unvisiteds
                   /\ u.weights = t.weights /\ u.backtracker = t.backtracker
                   /\ u.visiteds = t.visiteds
             /\ t.pc = "pop" /\ u.pc = "pop" /\ u # t =>
                   /\ \E e \in BagToSet(t.unvisiteds) :
                         /\ t.visiteds[e.index]
                         /\ u.unvisiteds (+) SetToBag({e}) = t.unvisiteds
                   /\ u.weights = t.weights /\ u.backtracker = t.backtracker
                   /\ u.visiteds = t.visiteds /\ u.now = t.now
             /\ t.pc = "pop" => t.visiteds[t.now]
             /\ t.pc = "edges" /\ u.pc = "pop" =>
                   /\ ~t.visiteds[t.now]
                   /\ u.visiteds = [t.visiteds EXCEPT ![t.now] = TRUE]
                   /\ Cardinality({i \in Indices : u.visiteds[i]})
                         = Cardinality({i \in Indices : t.visiteds[i]}) + 1
             /\ t.pc = "edges" => u.pc \in {"edges", "pop", "panic_133"}
             /\ Current(t) /\ Current(u) => u.now = t.now \/ t.pc = "reconstruct"]_vars

\* C13 witness: an entry of a visited index is on top of the frontier after two
\* vertices have been expanded, and an entry of an unvisited index is below it.
C13_Witness ==
    \E q \in DOMAIN trav :
        /\ trav[q].pc = "pop"
        /\ Cardinality({i \in Indices : trav[q].visiteds[i]}) = 2
        /\ \E e \in Poppable(trav[q].unvisiteds) : trav[q].visiteds[e.index]
        /\ \E f \in BagToSet(trav[q].unvisiteds) :
              /\ ~trav[q].visiteds[f.index]
              /\ f \notin Poppable(trav[q].unvisiteds)
\* The index at which the main loop stopped: that of the last vertex of the route.
Terminal(t) == dijkstra.v_to_index_map[t.route[Len(t.route)]]

\* C14: the entry that makes a vertex the current vertex carries the tentative
\* weight recorded for that vertex, and no other unvisited vertex has a smaller
\* tentative weight; the weight a call returns is the tentative weight recorded
\* for the vertex the main loop stopped at.
C14_EntryWeight ==
    /\ [][\A q \in DOMAIN trav :
             LET t == trav[q]
                 u == trav'[q]
             IN t.pc \in {"pop_start", "pop"} /\ Current(u) =>
                   /\ u.weight_sum = t.weights[u.now]
                   /\ \A j \in Indices :
                         ~t.visiteds[j] => cmp(u.weight_sum, t.weights[j]) # "Greater"]_vars
    /\ [](\A q \in DOMAIN trav :
             /\ trav[q].pc = "edges" \/ (trav[q].pc = "reconstruct" /\ trav[q].route = <<>>) =>
                   trav[q].weight_sum = trav[q].weights[trav[q].now]
             /\ trav[q].pc = "reconstruct" /\ trav[q].route # <<>> =>
                   trav[q].weight_sum = trav[q].weights[Terminal(trav[q])]
             /\ Returned(q) =>
                   trav[q].weight_sum = trav[q].weights[Terminal(trav[q])])

\* C14 witness: a call has returned while the frontier still holds a stale entry
\* for the vertex the main loop stopped at, of a greater finite weight.
C14_Witness ==
    \E q \in DOMAIN trav :
        /\ Returned(q)
        /\ \E f \in BagToSet(trav[q].unvisiteds) :
              /\ f.index = Terminal(trav[q])
              /\ ~f.weight.is_infinity
              /\ cmp(trav[q].weight_sum, f.weight) = "Less"
\* A relaxation has written the backpointer of index i: a vertex that is no start
\* has a finite tentative weight only from line 144, which line 145 follows.
Relaxed(t, i) == i \notin t.start_set /\ ~t.weights[i].is_infinity

\* C15: once the main loop has stopped, reconstruction follows backpointers that
\* a relaxation wrote, prepends at most as many vertices as the engine has, and a
\* returned route is the followed chain: each vertex but the first was relaxed
\* from the one before it.
C15_ReconstructionEnds ==
    \A q \in DOMAIN trav :
        LET t == trav[q]
            m == dijkstra.v_to_index_map
        IN t.pc \in {"reconstruct", "done"} =>
              /\ Len(t.route) <= Cardinality(Indices)
              /\ t.pc = "reconstruct" => t.now \in t.start_set \/ Relaxed(t, t.now)
              /\ \A k \in 2..Len(t.route) :
                    /\ Relaxed(t, m[t.route[k]])
                    /\ t.backtracker[m[t.route[k]]] = m[t.route[k - 1]]
              /\ t.pc = "done" => m[t.route[1]] \in t.start_set
\* C16: the first current vertex has the weight zero, and a vertex that becomes
\* current later has a weight not less than that of any vertex that was current
\* before it: those are the visited vertices, and their tentative weights are the
\* weights they had when they were current (C14, C11).
C16_Monotone ==
    [][\A q \in DOMAIN trav :
          LET t == trav[q]
              u == trav'[q]
          IN /\ t.pc = "pop_start" /\ Current(u) => u.weight_sum = zero
             /\ t.pc = "pop" /\ Current(u) =>
                   /\ cmp(u.weight_sum, t.weights[t.now]) # "Less"
                   /\ \A i \in Indices :
                         t.visiteds[i] => cmp(u.weight_sum, t.weights[i]) # "Less"]_vars

\* C16 witness: the third current vertex has a finite weight greater than that of
\* the second, which is greater than zero.
C16_Witness ==
    \E q \in DOMAIN trav :
        /\ trav[q].pc = "edges"
        /\ ~trav[q].weight_sum.is_infinity
        /\ \E i \in Indices \ trav[q].start_set :
              /\ trav[q].visiteds[i]
              /\ cmp(trav[q].weights[i], zero) = "Greater"
              /\ cmp(trav[q].weight_sum, trav[q].weights[i]) = "Greater"
\* C17: on a graph of finite weights the returned path has no vertex twice and
\* only its first vertex is a start; and no step of a running call changes the
\* tentative weight or the backpointer of a start vertex.
C17_SimplePath ==
    /\ [](\A q \in DOMAIN trav :
             Returned(q) /\ FiniteWeights =>
                LET r == trav[q].route
                IN /\ \A j, k \in DOMAIN r : j # k => r[j] # r[k]
                   /\ \A k \in DOMAIN r : r[k] \in call[q].starts <=> k = 1)
    /\ [][\A q \in DOMAIN trav :
             Running(q) /\ trav'[q].pc # "idle" =>
                \A i \in trav[q].start_set :
                   /\ trav'[q].weights[i] = trav[q].weights[i]
                   /\ trav'[q].backtracker[i] = trav[q].backtracker[i]]_vars

\* C17 witness: a call with two starts joined by an edge of weight zero has
\* returned a path of several vertices on a graph of finite weights.
C17_Witness ==
    \E q \in DOMAIN trav :
        /\ Returned(q) /\ FiniteWeights
        /\ Len(trav[q].route) >= 2
        /\ \E u, v \in KnownOf(call[q].starts) :
              /\ u # v /\ ZeroEdge(u, v)
              /\ v = trav[q].route[1]
\* C18: a vertex whose tentative weight is infinity does not become the current
\* vertex, no entry of weight infinity is popped as the current one, and a call
\* does not return the weight infinity.
C18_NoInfinity ==
    \A q \in DOMAIN trav :
        LET t == trav[q]
        IN /\ t.pc = "edges" \/ (t.pc = "reconstruct" /\ t.route = <<>>) =>
                 ~t.weights[t.now].is_infinity /\ ~t.weight_sum.is_infinity
           /\ Returned(q) => ~t.weight_sum.is_infinity
\* The positions in v's edges of the edges to a vertex the engine does not know.
UnknownEdges(v) ==
    {i \in DOMAIN edges[v] : edges[v][i].to \notin DOMAIN dijkstra.v_to_index_map}

\* C19: the expansion of a vertex with an edge to an unknown vertex never gets
\* past that edge: it ends in the abort of line 133, which hands over no result,
\* so such a vertex is never marked visited; and a call that returns, with such
\* an edge on a vertex it did not expand, has expanded only vertices without
\* one and, on finite weights, returns a path of the graph between known
\* vertices whose weight is the least path weight, which no edge to an unknown
\* vertex enters into.
C19_UnknownEdge ==
    /\ [][\A q \in DOMAIN trav :
             LET t == trav[q]
                 u == trav'[q]
             IN /\ t.pc = "edges" /\ UnknownEdges(dijkstra.graph[t.now]) # {} =>
                      /\ u.pc \in {"edges", "panic_133"}
                      /\ u.pc = "edges" =>
                            /\ u.edge = t.edge + 1
                            /\ \A k \in UnknownEdges(dijkstra.graph[t.now]) : u.edge <= k
                      /\ u.pc = "panic_133" =>
                            t.edge \in UnknownEdges(dijkstra.graph[t.now])
                /\ t.pc = "panic_133" => u.pc = "panic_133" /\ u.route = <<>>]_vars
    /\ [](\A q \in DOMAIN trav :
             LET t == trav[q]
             IN /\ Running(q) =>
                      \A i \in Indices :
                         t.visiteds[i] => UnknownEdges(dijkstra.graph[i]) = {}
                /\ t.pc = "panic_133" =>
                      t.route = <<>> /\ UnknownEdges(dijkstra.graph[t.now]) # {}
                /\ Returned(q) /\ FiniteWeights =>
                      LET ws == PathWeights(KnownOf(call[q].starts), KnownOf(call[q].ends))
                      IN /\ Range(t.route) \subseteq Known
                         /\ IsPath(t.route)
                         /\ WEq(t.weight_sum, PathWeight(t.route))
                         /\ ws # {} /\ WEq(t.weight_sum, Least(ws)))

\* C19 witness: a call has aborted at line 133 in the expansion of a vertex that
\* is no start, although an edge leads from a start to an end, neither of them
\* the vertex with the unknown edge.
C19_Witness ==
    \E q \in DOMAIN trav :
        LET b == dijkstra.graph[trav[q].now]
        IN /\ trav[q].pc = "panic_133"
           /\ trav[q].now \notin trav[q].start_set
           /\ \E u \in KnownOf(call[q].starts) \ {b} :
                 \E v \in KnownOf(call[q].ends) \ {b} : EdgeWeights(u, v) # {}
====
